---------------------------- MODULE Spec2Model ----------------------------
(***************************************************************************)
(* git_cleaner: an interactive helper that walks the remote branches of a  *)
(* git repository, oldest first, and lets the operator delete or skip each *)
(* one.                                                                    *)
(*                                                                         *)
(* The module models the latest revision of the program                    *)
(* (src/unnamed/part_001: cleanDriver, launchCleaner, branchCycle,         *)
(* confirmDelete, runShellCommand, parseBranch) and, further down, the     *)
(* first revision (src/git_cleaner.js: clean_driver, branch_cycle,         *)
(* parse_branch; src/unnamed/part_000 holds the same branch_cycle).        *)
(*                                                                         *)
(* Node runs every callback to completion, so one action of the model is   *)
(* one callback of the program: the whole synchronous chain it runs, up to *)
(* the point where it has registered its next asynchronous operation       *)
(* (a readline question or a child_process.exec) or has returned.  The     *)
(* asynchronous operations that are outstanding are the set `pending`.     *)
(*                                                                         *)
(* Strings are TLA+ strings; indexOf, substring, trim, split and string    *)
(* concatenation are computed on them character by character.              *)
(*                                                                         *)
(* Four specifications share the variables: Spec (the session of the       *)
(* latest revision), SpecLegacy (the session of the first revision),       *)
(* SpecUnit (parseBranch, parse_branch and runShellCommand applied on      *)
(* their own) and SpecLive (Spec, with every outstanding prompt answered   *)
(* and every exec returning in the end).                                   *)
(***************************************************************************)
EXTENDS Integers, Sequences, FiniteSets, TLC

VARIABLES
    pc,          \* where the session is: "start", "listing", "cycle", "done"
    target_path, \* process.argv[2] once cleanDriver has accepted it
    git_logs,    \* the raw lines handed to branchCycle
    completed,   \* async.eachSeries: index of the entry being processed
    live,        \* async.eachSeries: the final callback has not been dropped
    runStats,    \* branchCycle's accumulator {branch_count, delete_count}
    pending,     \* outstanding asynchronous operations (prompts, execs)
    nextId,      \* identities for the outstanding operations
    out,         \* everything written to the terminal or handed to exec
    mainCalls,   \* how often branchCycle's main_callback has been invoked
    mainErr,     \* the err the main_callback received
    lastAnswer,  \* the operation and the line last read from the operator
    lastShell,   \* the operation and the outcome of the last exec
    allNo,       \* every line the operator has typed so far is "no"
    handed,      \* what confirmDelete last handed its callback (err, cmd)
    callbacks,   \* the entries whose eachSeries callback has been invoked
    given,       \* what the session was started on: argv, the target and
                 \* the listing's error, stderr and whether it had no stdout
    arg,         \* the input a function is applied to on its own
    ret          \* what that function handed its callback

vars == <<pc, target_path, git_logs, completed, live, runStats, pending,
          nextId, out, mainCalls, mainErr, lastAnswer, lastShell, allNo,
          handed, callbacks, given, arg, ret>>

-----------------------------------------------------------------------------
(* Bounds of the model and the inputs it draws from.                       *)

\* At most this many lines in the branch listing's output.
MaxLines == 3

\* JS values that may be absent (null / undefined): <<>> or <<v>>.
None == <<>>
Some(v) == <<v>>

\* The raw lines the listing is made of: blank, two of the documented shape
\* (the second with a "/" inside the branch name), one without the marker and
\* one with an empty branch name.
LineSamples ==
    { "",
      "1 ann fix  [[branch]]  origin/f",
      "2 bob [[branch]] up/r/1",
      "3 cy wip origin/g",
      "4 di [[branch]] origin/" }

\* The line endings String.split(/\r\n|\r|\n/g) recognises.
LineEndings == { "\n", "\r", "\r\n" }

\* What the operator may type at a prompt.
Answers == { "yes", "y", "no", "exit", "x", "Yes", "" }

\* What child_process.exec may hand its callback: error (null or an Error)
\* and the captured stderr.
ExecErrors == { None, Some("Error: Command failed") }
ExecStderrs == { "", "fatal: failed" }

\* process.argv: node, the script, and the arguments given.
ArgvSamples == { <<"node", "git_cleaner">>,
                 <<"node", "git_cleaner", "repo">>,
                 <<"node", "git_cleaner", "repo", "extra">> }


-----------------------------------------------------------------------------
(* JavaScript's string primitives, positions counted from 0.               *)

\* String.prototype.lastIndexOf: the last position where pat occurs, or -1.
LastIndexOf(s, pat) ==
    LET hits == { i \in 0..(Len(s) - Len(pat)) :
                    SubSeq(s, i + 1, i + Len(pat)) = pat }
    IN  IF hits = {} THEN -1
        ELSE CHOOSE i \in hits : \A j \in hits : j <= i

\* String.prototype.indexOf: the first position where pat occurs, or -1.
IndexOf(s, pat) ==
    LET hits == { i \in 0..(Len(s) - Len(pat)) :
                    SubSeq(s, i + 1, i + Len(pat)) = pat }
    IN  IF hits = {} THEN -1
        ELSE CHOOSE i \in hits : \A j \in hits : i <= j

\* String.prototype.substring(from) and substring(from, to).
SubstringFrom(s, from) == SubSeq(s, from + 1, Len(s))
Substring(s, from, to) == SubSeq(s, from + 1, to)

\* The white space String.prototype.trim strips (of the characters the
\* inputs of the model are made of).
WhiteSpace == { " ", "\t", "\n", "\r" }

\* String.prototype.trim.
Trim(s) ==
    LET keep == { i \in 1..Len(s) : SubSeq(s, i, i) \notin WhiteSpace }
    IN  IF keep = {} THEN ""
        ELSE LET lo == CHOOSE i \in keep : \A j \in keep : i <= j
                 hi == CHOOSE i \in keep : \A j \in keep : j <= i
             IN  SubSeq(s, lo, hi)

\* String.prototype.split(/\r\n|\r|\n/g): always at least one piece; "\r\n"
\* is one separator.
RECURSIVE SplitLines(_)
SplitLines(s) ==
    LET seps == { i \in 1..Len(s) : SubSeq(s, i, i) \in { "\r", "\n" } }
    IN  IF seps = {} THEN << s >>
        ELSE LET i == CHOOSE k \in seps : \A j \in seps : k <= j
                 crlf == /\ SubSeq(s, i, i) = "\r"
                         /\ i < Len(s)
                         /\ SubSeq(s, i + 1, i + 1) = "\n"
                 rest == SubSeq(s, IF crlf THEN i + 2 ELSE i + 1, Len(s))
             IN  << SubSeq(s, 1, i - 1) >> \o SplitLines(rest)

-----------------------------------------------------------------------------
(* parseBranch, runShellCommand's verdict and the command strings          *)
(* (src/unnamed/part_001).                                                 *)

BRANCH_MARKER == "[[branch]]"

\* helper to capture a common log format
branchParseFail(branch_info, reason) ==
    "Unable to parse branch information from branch (" \o reason \o ") "
        \o branch_info

\* What parseBranch hands its callback: (err) or (null, branch).
parseBranch(branch_info) ==
    LET branch_split_idx == IndexOf(branch_info, BRANCH_MARKER)
        branch_split ==
            Trim(SubstringFrom(branch_info,
                               branch_split_idx + Len(BRANCH_MARKER)))
        remote_split_idx == IndexOf(branch_split, "/")
        git_remote == Substring(branch_split, 0, remote_split_idx)
        git_branch == SubstringFrom(branch_split, remote_split_idx + 1)
    IN  IF branch_split_idx = -1
          THEN [err |-> Some("Log entry missing branch marker "
                             \o BRANCH_MARKER \o " on log entry "
                             \o branch_info),
                branch |-> None]
        ELSE IF branch_split = ""
          THEN [err |-> Some(branchParseFail(branch_info,
                                             "No branch delimiter found")),
                branch |-> None]
        ELSE IF remote_split_idx = -1
          THEN [err |-> Some(branchParseFail(branch_info,
                                             "No remote branch split found")),
                branch |-> None]
        ELSE IF git_remote = "" \/ git_branch = ""
          THEN [err |-> Some(branchParseFail(branch_info,
                                  "Unable to parse out remote and branch")),
                branch |-> None]
        ELSE [err |-> None,
              branch |-> Some([git_remote |-> git_remote,
                               git_branch |-> git_branch,
                               branch_info |-> branch_info])]

\* util.format("cd %s;%s", target_path, command)
ShellCmd(path, command) == "cd " \o path \o ";" \o command

\* util.format("git push --porcelain %s :%s", git_remote, git_branch)
RemoteDelete(branch) ==
    "git push --porcelain " \o branch.git_remote \o " :" \o branch.git_branch

\* util.format("git branch -D %s", git_branch)
LocalDelete(branch) == "git branch -D " \o branch.git_branch

\* A runShellCommand that looks at stderr only and not at exec's error.
ShellFailedStderrOnly(ignore_errors, error, stderr) ==
    ~ignore_errors /\ stderr # ""

\* runShellCommand: !ignore_errors && (stderr || error)
ShellFailed(ignore_errors, error, stderr) ==
    ~ignore_errors /\ (stderr # "" \/ error # None)

\* The answers branchCycle and confirmDelete take as a yes, and as an exit.
ReviewAffirmative(answer) == answer = "yes" \/ answer = "y"
\* A confirmDelete that declines on "no" only.
ConfirmAffirmativeUnlessNo(answer) == answer # "no"
ConfirmAffirmative(answer) == answer = "yes" \/ answer = "y"
\* A branchCycle that knows "exit" but not its short form "x".
IsExitLongOnly(answer) == answer = "exit"
IsExit(answer) == answer = "exit" \/ answer = "x"

-----------------------------------------------------------------------------
(* The state a callback works on, and what it does to it.  A callback's    *)
(* synchronous run is a function from such a record to such a record.      *)

NoBranch == [git_remote |-> "", git_branch |-> "", branch_info |-> ""]

\* An outstanding operation: the listing exec ("listing"), branchCycle's
\* question ("review"), confirmDelete's question ("confirm"), the exec of the
\* remote delete ("remote") and of the local delete ("local").  idx is the
\* entry of git_logs it belongs to, text the prompt or the command line.
Op(kind, idx, branch, text) ==
    [id |-> 0, kind |-> kind, idx |-> idx, branch |-> branch, text |-> text]

NoOp == Op("none", 0, NoBranch, "")

Cur ==
    [pc |-> pc, git_logs |-> git_logs, completed |-> completed,
     live |-> live, runStats |-> runStats, pending |-> pending,
     nextId |-> nextId, out |-> out, mainCalls |-> mainCalls,
     mainErr |-> mainErr, handed |-> handed, callbacks |-> callbacks]

Commit(st) ==
    /\ pc' = st.pc
    /\ git_logs' = st.git_logs
    /\ completed' = st.completed
    /\ live' = st.live
    /\ runStats' = st.runStats
    /\ pending' = st.pending
    /\ nextId' = st.nextId
    /\ out' = st.out
    /\ mainCalls' = st.mainCalls
    /\ mainErr' = st.mainErr
    /\ handed' = st.handed
    /\ callbacks' = st.callbacks

\* console.log ("log"), console.error ("error"), util.log ("ulog"), the text
\* of an rl.question ("prompt"), the command of a child_process.exec ("exec").
Emit(st, ev, text) ==
    [st EXCEPT !.out = Append(@, [ev |-> ev, text |-> text])]

\* rl.question / child_process.exec: the operation is outstanding from now.
Register(st, op) ==
    [st EXCEPT !.pending = @ \cup { [op EXCEPT !.id = st.nextId] },
               !.nextId = @ + 1]

\* The callback of an operation runs: it is outstanding no longer.
Retire(st, p) == [st EXCEPT !.pending = @ \ { p }]

\* util.inspect of a string.
Inspect(s) == "'" \o s \o "'"

\* A launchCleaner that reports the error first and the statistics after.
mainCallbackErrorFirst(st, err) ==
    LET s0 == IF err # None
                THEN Emit(st, "ulog", "Git clean processing failure - "
                                         \o Inspect(err[1]))
                ELSE st
        s1 == Emit(s0, "log", "")
        s2 == Emit(s1, "ulog", "Total number branches processed: "
                                  \o ToString(st.runStats.branch_count))
        s3 == Emit(s2, "ulog", "Number of branches deleted: "
                                  \o ToString(st.runStats.delete_count))
        s4 == Emit(Emit(s3, "log", ""), "log", "")
    IN  [s4 EXCEPT !.mainCalls = @ + 1, !.mainErr = err, !.pc = "done"]

\* launchCleaner's callback of branchCycle: the statistics, then the error.
mainCallback(st, err) ==
    LET s1 == Emit(st, "log", "")
        s2 == Emit(s1, "ulog", "Total number branches processed: "
                                  \o ToString(st.runStats.branch_count))
        s3 == Emit(s2, "ulog", "Number of branches deleted: "
                                  \o ToString(st.runStats.delete_count))
        s4 == Emit(Emit(s3, "log", ""), "log", "")
        s5 == IF err # None
                THEN Emit(s4, "ulog", "Git clean processing failure - "
                                         \o Inspect(err[1]))
                ELSE s4
    IN  [s5 EXCEPT !.mainCalls = @ + 1, !.mainErr = err, !.pc = "done"]

\* branchCycle's final function(err): main_callback(err, runStats).
finalCallback(st, err) == mainCallback(st, err)

\* runShellCommand up to its exec: the command line, handed to exec.
runShellCommand(st, kind, idx, branch, path, command) ==
    LET cmd == ShellCmd(path, command)
    IN  Register(Emit(st, "exec", cmd), Op(kind, idx, branch, cmd))

\* confirmDelete up to its question.
confirmDelete(st, idx, branch) ==
    LET text == "Run this cmd '" \o RemoteDelete(branch) \o "' ? (yes/no) "
    IN  Register(Emit(st, "prompt", text), Op("confirm", idx, branch, text))

\* async.eachSeries (the library, as of async 0.2): the callback handed to
\* the iterator, and the iterator itself (branchCycle's function of one
\* git_log_entry).
\* idx is the entry the callback was made for; callbacks keeps the order in
\* which the callbacks have been invoked.
RECURSIVE eachCallback(_, _, _)
RECURSIVE iterator(_)
eachCallback(st, idx, err) ==
    LET s0 == [st EXCEPT !.callbacks = Append(@, idx)]
    IN  IF err # None
          THEN IF s0.live THEN [finalCallback(s0, err) EXCEPT !.live = FALSE]
               ELSE s0
        ELSE LET s1 == [s0 EXCEPT !.completed = @ + 1]
             IN  IF s1.completed >= Len(s1.git_logs)
                   THEN IF s1.live THEN finalCallback(s1, None) ELSE s1
                 ELSE iterator(s1)

iterator(st) ==
    LET git_log_entry == st.git_logs[st.completed + 1]
    IN  IF git_log_entry = ""
          THEN eachCallback(st, st.completed, None)
        ELSE LET s1 == [st EXCEPT !.runStats.branch_count = @ + 1]
                 parsed == parseBranch(git_log_entry)
             IN  IF parsed.err # None
                   THEN eachCallback(s1, st.completed, parsed.err)
                 ELSE LET branch == parsed.branch[1]
                          branch_target ==
                              branch.git_remote \o "/" \o branch.git_branch
                          text == "Delete branch " \o branch_target
                                      \o "? (yes/no/exit) "
                          s2 == Emit(s1, "log", "\n\n")
                          s3 == Emit(s2, "log",
                                     Trim(branch.branch_info) \o " \n")
                      IN  Register(Emit(s3, "prompt", text),
                                   Op("review", st.completed, branch, text))

\* branchCycle: fresh statistics, then async.eachSeries over git_logs.
branchCycle(st, logs) ==
    LET s1 == [st EXCEPT !.git_logs = logs, !.completed = 0, !.live = TRUE,
                         !.callbacks = << >>,
                         !.runStats = [branch_count |-> 0, delete_count |-> 0],
                         !.pc = "cycle"]
    IN  IF Len(logs) = 0 THEN finalCallback(s1, None) ELSE iterator(s1)

\* A branchCycle that counts a delete whenever confirmDelete reports no error.
confirmCallbackCountsNoError(st, idx, err, cmd_run) ==
    LET s0 == [st EXCEPT !.handed = [idx |-> idx, err |-> err,
                                     cmd |-> cmd_run]]
        s1 == IF err = None
                THEN [s0 EXCEPT !.runStats.delete_count = @ + 1]
                ELSE s0
    IN  eachCallback(s1, idx, err)

\* A branchCycle that goes on to the next entry whatever confirmDelete's err.
confirmCallbackSwallowsError(st, idx, err, cmd_run) ==
    LET s0 == [st EXCEPT !.handed = [idx |-> idx, err |-> err,
                                     cmd |-> cmd_run]]
        s1 == IF cmd_run # None
                THEN [s0 EXCEPT !.runStats.delete_count = @ + 1]
                ELSE s0
    IN  eachCallback(s1, idx, None)

\* branchCycle's callback of confirmDelete, for the entry idx:
\* function(err, cmd_run).  handed keeps what it was called with.
confirmCallback(st, idx, err, cmd_run) ==
    LET s0 == [st EXCEPT !.handed = [idx |-> idx, err |-> err,
                                     cmd |-> cmd_run]]
        s1 == IF cmd_run # None
                THEN [s0 EXCEPT !.runStats.delete_count = @ + 1]
                ELSE s0
    IN  eachCallback(s1, idx, err)

\* A runShellCommand that takes no notice of ignore_errors.
shellResultNeverIgnores(st, p, error, stderr, ignore_errors) ==
    IF stderr # "" \/ error # None
      THEN LET s1 == Emit(st, "log", "stderr: " \o stderr)
               s2 == IF error # None
                       THEN Emit(s1, "log", "exec error: " \o error[1])
                       ELSE s1
           IN  [st |-> s2,
                err |-> Some("FAILURE running shell command:" \o p.text),
                cmd |-> None]
      ELSE [st |-> Emit(st, "log", "OK: " \o p.text),
            err |-> None,
            cmd |-> Some(p.text)]

\* runShellCommand's exec callback: what it logs and hands to its callback.
shellResult(st, p, error, stderr, ignore_errors) ==
    IF ShellFailed(ignore_errors, error, stderr)
      THEN LET s1 == Emit(st, "log", "stderr: " \o stderr)
               s2 == IF error # None
                       THEN Emit(s1, "log", "exec error: " \o error[1])
                       ELSE s1
           IN  [st |-> s2,
                err |-> Some("FAILURE running shell command:" \o p.text),
                cmd |-> None]
      ELSE [st |-> Emit(st, "log", "OK: " \o p.text),
            err |-> None,
            cmd |-> Some(p.text)]

\* A confirmDelete that passes ignore_errors = false for both commands.
IgnoreErrorsNever(kind) == FALSE

\* The ignore_errors confirmDelete passes: false for the remote delete, true
\* for the local one.
IgnoreErrors(kind) == kind = "local"

-----------------------------------------------------------------------------
(* The listing's output: lines joined by one line ending, with or without  *)
(* a final line ending.                                                    *)

RECURSIVE Join(_, _)
Join(lines, eol) ==
    IF Len(lines) = 0 THEN ""
    ELSE IF Len(lines) = 1 THEN lines[1]
    ELSE lines[1] \o eol \o Join(Tail(lines), eol)

Listings == UNION { [1..n -> LineSamples] : n \in 0..MaxLines }

Stdouts ==
    { Join(lines, eol) \o tail :
        lines \in Listings, eol \in LineEndings, tail \in { "", "\n" } }

-----------------------------------------------------------------------------
(* The session, src/unnamed/part_001.                                      *)

NoAnswer == [op |-> NoOp, answer |-> ""]
NoShell == [op |-> NoOp, error |-> None, stderr |-> ""]
NoHanded == [idx |-> -1, err |-> None, cmd |-> None]
NoGiven == [argv |-> << >>, fs |-> "", listing |-> None]
NoArg == [fn |-> "none"]
NoRet == [fn |-> "none"]

Init ==
    /\ pc = "start"
    /\ target_path = ""
    /\ git_logs = << >>
    /\ completed = 0
    /\ live = FALSE
    /\ runStats = [branch_count |-> 0, delete_count |-> 0]
    /\ pending = {}
    /\ nextId = 1
    /\ out = << >>
    /\ mainCalls = 0
    /\ mainErr = None
    /\ lastAnswer = NoAnswer
    /\ lastShell = NoShell
    /\ allNo = TRUE
    /\ handed = NoHanded
    /\ callbacks = << >>
    /\ given = NoGiven
    /\ arg = NoArg
    /\ ret = NoRet

\* launchCleaner up to its exec of the branch listing.
launchCleaner(st, path) ==
    LET cmd == "./show_git_branches.sh " \o path
    IN  [Register(Emit(st, "exec", cmd), Op("listing", 0, NoBranch, cmd))
            EXCEPT !.pc = "listing"]

\* cleanDriver: the argument count, the target's existence and kind, then
\* launchCleaner.  fs is what the file system holds at the target path.
cleanDriver(st, argv, fs) ==
    IF Len(argv) # 3
      THEN [Emit(Emit(st, "error", "\nMissing target git repository"),
                 "error",
                 "Usage : node git_cleaner PATH_TO_FOLDER_TO_CLEAN\n")
               EXCEPT !.pc = "done"]
    ELSE IF fs = "missing"
      THEN [Emit(st, "error",
                 "\nTarget folder to clean must exist. Was passed: "
                     \o argv[3])
               EXCEPT !.pc = "done"]
    ELSE IF fs # "dir"
      THEN [Emit(st, "error",
                 "\nTarget must be a folder. Was passed: " \o argv[3])
               EXCEPT !.pc = "done"]
    ELSE launchCleaner(st, argv[3])

CleanDriver ==
    /\ pc = "start"
    /\ \E argv \in ArgvSamples, fs \in { "missing", "file", "dir" } :
         /\ Commit(cleanDriver(Cur, argv, fs))
         /\ target_path' = IF Len(argv) = 3 THEN argv[3] ELSE target_path
         /\ given' = [given EXCEPT !.argv = argv, !.fs = fs]
    /\ UNCHANGED <<lastAnswer, lastShell, allNo, arg, ret>>

\* A launchCleaner that does not look whether there is any stdout.
listingCallbackAnyStdout(st, error, stdout, stderr) ==
    IF stderr # "" \/ error # None
      THEN LET s1 == Emit(st, "ulog", "Exiting with git log retrieval error")
               s2 == Emit(s1, "error", "stderr: " \o stderr)
               s3 == IF error # None
                       THEN Emit(s2, "error", "exec error: " \o error[1])
                       ELSE s2
           IN  [s3 EXCEPT !.pc = "done"]
    ELSE branchCycle(st, SplitLines(stdout))

\* launchCleaner's exec callback: function (error, stdout, stderr).
listingCallback(st, error, stdout, stderr) ==
    IF stderr # "" \/ error # None
      THEN LET s1 == Emit(st, "ulog", "Exiting with git log retrieval error")
               s2 == Emit(s1, "error", "stderr: " \o stderr)
               s3 == IF error # None
                       THEN Emit(s2, "error", "exec error: " \o error[1])
                       ELSE s2
           IN  [s3 EXCEPT !.pc = "done"]
    ELSE IF stdout = ""
      THEN [Emit(st, "error",
                 "\nNo git repository found at path " \o target_path)
               EXCEPT !.pc = "done"]
    ELSE branchCycle(st, SplitLines(stdout))

ListingDone ==
    \E p \in pending :
      /\ p.kind = "listing"
      /\ \E error \in ExecErrors, stderr \in ExecStderrs, stdout \in Stdouts :
           /\ Commit(listingCallback(Retire(Cur, p), error, stdout, stderr))
           /\ lastShell' = [op |-> p, error |-> error, stderr |-> stderr]
           /\ given' = [given EXCEPT !.listing =
                           Some([error |-> error, stderr |-> stderr,
                                 nostdout |-> (stdout = "")])]
      /\ UNCHANGED <<target_path, lastAnswer, allNo, arg, ret>>

\* A branchCycle whose question treats "no" like "exit".
reviewCallbackNoExits(st, p, answer) ==
    IF ReviewAffirmative(answer)
      THEN confirmDelete(st, p.idx, p.branch)
    ELSE IF IsExit(answer) \/ answer = "no"
      THEN eachCallback(st, p.idx, Some("User Exit"))
    ELSE eachCallback(Emit(st, "log", "Skipping " \o p.branch.git_branch),
                      p.idx, None)

\* branchCycle's rl.question callback: function(answer).
reviewCallback(st, p, answer) ==
    IF ReviewAffirmative(answer)
      THEN confirmDelete(st, p.idx, p.branch)
    ELSE IF IsExit(answer)
      THEN eachCallback(st, p.idx, Some("User Exit"))
    ELSE eachCallback(Emit(st, "log", "Skipping " \o p.branch.git_branch),
                      p.idx, None)

AnswerReview ==
    \E p \in pending :
      /\ p.kind = "review"
      /\ \E answer \in Answers :
           /\ Commit(reviewCallback(Retire(Cur, p), p, answer))
           /\ lastAnswer' = [op |-> p, answer |-> answer]
           /\ allNo' = (allNo /\ answer = "no")
      /\ UNCHANGED <<target_path, lastShell, given, arg, ret>>

\* A confirmDelete whose question knows "exit" and "x" as branchCycle's does.
confirmAnswerHonoursExit(st, p, answer) ==
    IF ConfirmAffirmative(answer)
      THEN runShellCommand(st, "remote", p.idx, p.branch, target_path,
                           RemoteDelete(p.branch))
    ELSE IF IsExit(answer)
      THEN confirmCallback(st, p.idx, Some("User Exit"), None)
    ELSE confirmCallback(
             Emit(st, "log", "Skipping " \o p.branch.git_branch),
             p.idx, None, None)

\* confirmDelete's rl.question callback: function(answer).
confirmAnswer(st, p, answer) ==
    IF ConfirmAffirmative(answer)
      THEN runShellCommand(st, "remote", p.idx, p.branch, target_path,
                           RemoteDelete(p.branch))
    ELSE confirmCallback(
             Emit(st, "log", "Skipping " \o p.branch.git_branch),
             p.idx, None, None)

AnswerConfirm ==
    \E p \in pending :
      /\ p.kind = "confirm"
      /\ \E answer \in Answers :
           /\ Commit(confirmAnswer(Retire(Cur, p), p, answer))
           /\ lastAnswer' = [op |-> p, answer |-> answer]
           /\ allNo' = (allNo /\ answer = "no")
      /\ UNCHANGED <<target_path, lastShell, given, arg, ret>>

\* A confirmDelete that keeps the remote delete's cmd and hands that back
\* once the local delete has returned.
shellCallbackHandsRemoteCommand(st, p, error, stderr) ==
    LET r == shellResult(st, p, error, stderr, IgnoreErrors(p.kind))
    IN  IF p.kind = "remote"
          THEN IF r.err # None
                 THEN confirmCallback(r.st, p.idx, r.err, None)
               ELSE runShellCommand(r.st, "local", p.idx, p.branch,
                                    target_path, LocalDelete(p.branch))
        ELSE confirmCallback(r.st, p.idx, r.err,
                             Some(ShellCmd(target_path,
                                           RemoteDelete(p.branch))))

\* A confirmDelete that drops its callback once the local delete returns.
shellCallbackDropsCallback(st, p, error, stderr) ==
    LET r == shellResult(st, p, error, stderr, IgnoreErrors(p.kind))
    IN  IF p.kind = "remote"
          THEN IF r.err # None
                 THEN confirmCallback(r.st, p.idx, r.err, None)
               ELSE runShellCommand(r.st, "local", p.idx, p.branch,
                                    target_path, LocalDelete(p.branch))
        ELSE r.st

\* What follows runShellCommand's callback: for the remote delete,
\* confirmDelete's function(err, cmd), which returns the error or runs the
\* local delete; for the local delete, branchCycle's function(err, cmd_run).
shellCallback(st, p, error, stderr) ==
    LET r == shellResult(st, p, error, stderr, IgnoreErrors(p.kind))
    IN  IF p.kind = "remote"
          THEN IF r.err # None
                 THEN confirmCallback(r.st, p.idx, r.err, None)
               ELSE runShellCommand(r.st, "local", p.idx, p.branch,
                                    target_path, LocalDelete(p.branch))
        ELSE confirmCallback(r.st, p.idx, r.err, r.cmd)

ShellDone ==
    \E p \in pending :
      /\ p.kind \in { "remote", "local" }
      /\ \E error \in ExecErrors, stderr \in ExecStderrs :
           /\ Commit(shellCallback(Retire(Cur, p), p, error, stderr))
           /\ lastShell' = [op |-> p, error |-> error, stderr |-> stderr]
      /\ UNCHANGED <<target_path, lastAnswer, allNo, given, arg, ret>>

Next ==
    \/ CleanDriver
    \/ ListingDone
    \/ AnswerReview
    \/ AnswerConfirm
    \/ ShellDone

Spec == Init /\ [][Next]_vars

-----------------------------------------------------------------------------
(* The first revision, src/git_cleaner.js (src/unnamed/part_000 holds the  *)
(* same parse_branch and branch_cycle behind the later driver).  It keeps  *)
(* no statistics and runs no delete command; it shares the variables of    *)
(* the session above and leaves target_path and runStats alone.            *)

\* What the properties of a string read as, printed: undefined.
PropsOfString ==
    [git_remote |-> "undefined", git_branch |-> "undefined",
     branch_info |-> "undefined"]

\* What parse_branch hands its callback as (err, branch).  Without the
\* marker it calls callback(message, BRANCH_MARKER, "on log entry",
\* branch_info): err is the bare message and branch is the marker string.
parse_branch(branch_info) ==
    LET parsed == parseBranch(branch_info)
    IN  IF IndexOf(branch_info, BRANCH_MARKER) = -1
          THEN [err |-> Some("Log entry missing branch marker"),
                branch |-> Some(PropsOfString)]
        ELSE parsed

\* An uncaught TypeError ends the process.
Crash(st) ==
    [Emit(st, "error",
          "TypeError: Cannot read property 'branch_info' of undefined")
        EXCEPT !.pc = "crashed", !.pending = {}]

\* branch_cycle's final function(err).
legacyFinal(st, err) ==
    LET s1 == IF err # None
                THEN Emit(Emit(Emit(st, "log", ""), "ulog",
                               "Git log processing failure: "
                                   \o Inspect(err[1])),
                          "log", "")
                ELSE st
    IN  [s1 EXCEPT !.mainCalls = @ + 1, !.mainErr = err, !.pc = "done"]

\* async.eachSeries around branch_cycle's iterator.  The iterator calls
\* callback() for an empty entry and goes on (no return), and it reads
\* branch.branch_info whatever err is.
RECURSIVE legacyEachCallback(_, _, _)
RECURSIVE legacyIterator(_)
legacyEachCallback(st, idx, err) ==
    LET s0 == [st EXCEPT !.callbacks = Append(@, idx)]
    IN  IF err # None
          THEN IF s0.live THEN [legacyFinal(s0, err) EXCEPT !.live = FALSE]
               ELSE s0
        ELSE LET s1 == [s0 EXCEPT !.completed = @ + 1]
             IN  IF s1.completed >= Len(s1.git_logs)
                   THEN IF s1.live THEN legacyFinal(s1, None) ELSE s1
                 ELSE legacyIterator(s1)

legacyIterator(st) ==
    LET git_log_entry == st.git_logs[st.completed + 1]
        s1 == IF git_log_entry = ""
                THEN legacyEachCallback(st, st.completed, None)
                ELSE st
        parsed == parse_branch(git_log_entry)
    IN  IF s1.pc = "crashed" THEN s1
        ELSE IF parsed.branch = None THEN Crash(s1)
        ELSE LET branch == parsed.branch[1]
                 branch_target ==
                     branch.git_remote \o "/" \o branch.git_branch
                 text == "Delete branch " \o branch_target
                             \o "? (yes/no/exit) "
                 s2 == Emit(s1, "log", "\n " \o branch.branch_info)
             IN  Register(Emit(s2, "prompt", text),
                          Op("review", st.completed, branch, text))

\* branch_cycle: async.eachSeries over git_logs.
branch_cycle(st, logs) ==
    LET s1 == [st EXCEPT !.git_logs = logs, !.completed = 0, !.live = TRUE,
                         !.callbacks = << >>, !.pc = "cycle"]
    IN  IF Len(logs) = 0 THEN legacyFinal(s1, None) ELSE legacyIterator(s1)

\* clean_driver up to its exec.
LegacyCleanDriver ==
    /\ pc = "start"
    /\ Commit([Register(Emit(Cur, "exec", "cd ~/glg/node-cmp; gs"),
                        Op("listing", 0, NoBranch, "cd ~/glg/node-cmp; gs"))
                 EXCEPT !.pc = "listing"])
    /\ UNCHANGED <<target_path, lastAnswer, lastShell, allNo, given, arg,
                   ret>>

\* clean_driver's exec callback: function (error, stdout, stderr).
legacyListingCallback(st, error, stdout, stderr) ==
    IF stderr # "" \/ error # None
      THEN LET s1 == Emit(st, "ulog", "Exiting with git log retrieval error")
               s2 == Emit(s1, "log", "stderr: " \o stderr)
               s3 == IF error # None
                       THEN Emit(s2, "log", "exec error: " \o error[1])
                       ELSE s2
           IN  [s3 EXCEPT !.pc = "done"]
    ELSE branch_cycle(st, SplitLines(stdout))

LegacyListingDone ==
    \E p \in pending :
      /\ p.kind = "listing"
      /\ \E error \in ExecErrors, stderr \in ExecStderrs, stdout \in Stdouts :
           /\ Commit(legacyListingCallback(Retire(Cur, p), error, stdout,
                                           stderr))
           /\ lastShell' = [op |-> p, error |-> error, stderr |-> stderr]
      /\ UNCHANGED <<target_path, lastAnswer, allNo, given, arg, ret>>

\* branch_cycle's rl.question callback: function(answer).
legacyAnswer(st, p, answer) ==
    LET branch_target == p.branch.git_remote \o "/" \o p.branch.git_branch
    IN  IF answer = "yes"
          THEN legacyEachCallback(
                   Emit(st, "log", "Deleting " \o branch_target),
                   p.idx, None)
        ELSE IF answer = "exit" \/ answer = "x"
          THEN legacyEachCallback(st, p.idx, Some("User Exit"))
        ELSE legacyEachCallback(
                 Emit(st, "log", "Skipping " \o branch_target),
                 p.idx, None)

\* The operator's line reaches one of the questions that are outstanding.
LegacyAnswer ==
    \E p \in pending :
      /\ p.kind = "review"
      /\ \E answer \in Answers :
           /\ Commit(legacyAnswer(Retire(Cur, p), p, answer))
           /\ lastAnswer' = [op |-> p, answer |-> answer]
           /\ allNo' = (allNo /\ answer = "no")
      /\ UNCHANGED <<target_path, lastShell, given, arg, ret>>

NextLegacy ==
    \/ LegacyCleanDriver
    \/ LegacyListingDone
    \/ LegacyAnswer

SpecLegacy == Init /\ [][NextLegacy]_vars

-----------------------------------------------------------------------------
(* The functions on their own: parseBranch (src/unnamed/part_001) and      *)
(* parse_branch (src/git_cleaner.js) applied to one raw line, and          *)
(* runShellCommand called with either value of ignore_errors.  The raw     *)
(* line is put together from its parts, as show_git_branches.sh formats    *)
(* it (commit details, the marker, refname), so that what parsing has to   *)
(* give back is known from the parts.                                      *)

\* The commit details in front of the marker; one holds a "/".
InfoSamples == { "", "1 ann fix ", "2 bob a/b " }
\* The marker, the marker cut short, no marker.
MarkerSamples == { BRANCH_MARKER, "[[branch]", "" }
\* The white space between the marker and the refname, and after it.
GapSamples == { "", " " }
\* The parts of the refname: <remote>, the separator, <branch>.
RemoteSamples == { "origin", "up", "" }
SeparatorSamples == { "/", "" }
BranchSamples == { "f", "r/1", "release/1.0", "" }

\* The raw line of the parts.
RawLine(a) ==
    a.info \o a.marker \o a.gap \o a.remote \o a.sep \o a.branch \o a.tail

ParseArgs ==
    { [fn |-> "parse", info |-> i, marker |-> m, gap |-> g, remote |-> r,
       sep |-> s, branch |-> b, tail |-> t] :
        i \in InfoSamples, m \in MarkerSamples, g \in GapSamples,
        r \in RemoteSamples, s \in SeparatorSamples, b \in BranchSamples,
        t \in GapSamples }

\* runShellCommand's arguments target_path, command and ignore_errors.
ShellArgs ==
    { [fn |-> "shell", target_path |-> "repo", command |-> c,
       ignore_errors |-> i] :
        c \in { "git push --porcelain origin :f", "git branch -D f" },
        i \in BOOLEAN }

InitUnit ==
    /\ pc = "apply"
    /\ arg \in ParseArgs \cup ShellArgs
    /\ ret = NoRet
    /\ target_path = ""
    /\ git_logs = << >>
    /\ completed = 0
    /\ live = FALSE
    /\ runStats = [branch_count |-> 0, delete_count |-> 0]
    /\ pending = {}
    /\ nextId = 1
    /\ out = << >>
    /\ mainCalls = 0
    /\ mainErr = None
    /\ lastAnswer = NoAnswer
    /\ lastShell = NoShell
    /\ allNo = TRUE
    /\ handed = NoHanded
    /\ callbacks = << >>
    /\ given = NoGiven

\* parseBranch(branch_info, function(err, branch) {...})
ApplyParseBranch ==
    /\ pc = "apply"
    /\ arg.fn = "parse"
    /\ LET r == parseBranch(RawLine(arg))
       IN  ret' = [fn |-> "parseBranch", err |-> r.err, branch |-> r.branch]
    /\ pc' = "applied"
    /\ UNCHANGED <<target_path, git_logs, completed, live, runStats, pending,
                   nextId, out, mainCalls, mainErr, lastAnswer, lastShell,
                   allNo, handed, callbacks, given, arg>>

\* parse_branch(branch_info, function(err, branch) {...})
ApplyParse_branch ==
    /\ pc = "apply"
    /\ arg.fn = "parse"
    /\ LET r == parse_branch(RawLine(arg))
       IN  ret' = [fn |-> "parse_branch", err |-> r.err, branch |-> r.branch]
    /\ pc' = "applied"
    /\ UNCHANGED <<target_path, git_logs, completed, live, runStats, pending,
                   nextId, out, mainCalls, mainErr, lastAnswer, lastShell,
                   allNo, handed, callbacks, given, arg>>

\* runShellCommand(target_path, command, ignore_errors, callback), up to
\* its exec.
CallRunShellCommand ==
    /\ pc = "apply"
    /\ arg.fn = "shell"
    /\ Commit([runShellCommand(Cur, "shell", 0, NoBranch, arg.target_path,
                               arg.command)
                 EXCEPT !.pc = "called"])
    /\ UNCHANGED <<target_path, lastAnswer, lastShell, allNo, given, arg, ret>>

\* runShellCommand's exec callback; ret is what it hands its callback.
RunShellCommandReturns ==
    /\ pc = "called"
    /\ \E p \in pending :
         /\ p.kind = "shell"
         /\ \E error \in ExecErrors, stderr \in ExecStderrs :
              LET r == shellResult(Retire(Cur, p), p, error, stderr,
                                   arg.ignore_errors)
              IN  /\ Commit([r.st EXCEPT !.pc = "applied"])
                  /\ ret' = [fn |-> "runShellCommand", err |-> r.err,
                             cmd |-> r.cmd]
                  /\ lastShell' = [op |-> p, error |-> error,
                                   stderr |-> stderr]
    /\ UNCHANGED <<target_path, lastAnswer, allNo, given, arg>>

NextUnit ==
    \/ ApplyParseBranch
    \/ ApplyParse_branch
    \/ CallRunShellCommand
    \/ RunShellCommandReturns

SpecUnit == InitUnit /\ [][NextUnit]_vars

-----------------------------------------------------------------------------
(* What the claims read off the state.                                     *)

StartsWith(s, pre) == Len(s) >= Len(pre) /\ SubSeq(s, 1, Len(pre)) = pre

\* Positions in out of the commands handed to exec, and of the prompts.
Execs == { i \in DOMAIN out : out[i].ev = "exec" }
IsRemoteDelete(text) == IndexOf(text, ";git push --porcelain ") # -1
IsLocalDelete(text) == IndexOf(text, ";git branch -D ") # -1
RemoteDeleteExecs == { i \in Execs : IsRemoteDelete(out[i].text) }
LocalDeleteExecs == { i \in Execs : IsLocalDelete(out[i].text) }
DeleteExecs == RemoteDeleteExecs \cup LocalDeleteExecs
ReviewPrompts ==
    { i \in DOMAIN out :
        out[i].ev = "prompt" /\ StartsWith(out[i].text, "Delete branch ") }
ConfirmPrompts ==
    { i \in DOMAIN out :
        out[i].ev = "prompt" /\ StartsWith(out[i].text, "Run this cmd '") }

\* An exec outcome that runShellCommand is to take as a failure.
Failure(shell) == shell.stderr # "" \/ shell.error # None

\* A raw line of the documented shape: the marker, then <remote>/<branch>
\* with both parts non-empty.
DocumentedShape(line) ==
    LET m == IndexOf(line, BRANCH_MARKER)
        payload == Trim(SubSeq(line, m + Len(BRANCH_MARKER) + 1, Len(line)))
        slash == IndexOf(payload, "/")
    IN  m # -1 /\ slash >= 1 /\ slash + 1 < Len(payload)

\* The number of non-empty lines among the first n of git_logs.
NonBlank(n) == Cardinality({ i \in 1..n : git_logs[i] # "" })

\* The events a step appends to out.
NewOut == (Len(out) + 1)..Len(out')

-----------------------------------------------------------------------------
(* C1: a remote-delete command reaches exec only in the step in which the  *)
(* operator answers "yes" or "y" to a confirmation prompt that shows that  *)
(* exact command, and such a confirmation prompt is put up only in the     *)
(* step in which the operator answers "yes" or "y" to the review prompt of *)
(* that same branch.                                                       *)
C1_DeleteOnlyAfterBothConfirmations ==
    [][ /\ \A i \in NewOut :
             (out'[i].ev = "exec" /\ IsRemoteDelete(out'[i].text)) =>
               \E p \in pending \ pending' :
                 /\ p.kind = "confirm"
                 /\ lastAnswer'.op = p
                 /\ lastAnswer'.answer \in { "yes", "y" }
                 /\ \E c \in { SubSeq(out'[i].text, k, Len(out'[i].text)) :
                                 k \in 1..Len(out'[i].text) } :
                      /\ out'[i].text = "cd " \o target_path \o ";" \o c
                      /\ p.text = "Run this cmd '" \o c \o "' ? (yes/no) "
        /\ \A p \in pending' \ pending :
             p.kind = "confirm" =>
               \E q \in pending \ pending' :
                 /\ q.kind = "review"
                 /\ lastAnswer'.op = q
                 /\ lastAnswer'.answer \in { "yes", "y" }
                 /\ q.text = "Delete branch " \o q.branch.git_remote \o "/"
                                 \o q.branch.git_branch \o "? (yes/no/exit) "
                 /\ p.text = "Run this cmd 'git push --porcelain "
                                 \o q.branch.git_remote \o " :"
                                 \o q.branch.git_branch \o "' ? (yes/no) "
      ]_vars

\* A remote delete has been handed to exec.
C1_Witness == RemoteDeleteExecs # {}

(* C2: when the exec of a confirmed remote delete fails (stderr or an exec *)
(* error), the failure is what the loop's caller receives, nothing is      *)
(* outstanding, and the remote delete stays the last command handed to     *)
(* exec: no local delete follows it.                                       *)
C2_RemoteFailureNoLocalDelete ==
    (lastShell.op.kind = "remote" /\ Failure(lastShell)) =>
        /\ mainErr = Some("FAILURE running shell command:"
                              \o lastShell.op.text)
        /\ pending = {}
        /\ \E i \in RemoteDeleteExecs :
             /\ out[i].text = lastShell.op.text
             /\ \A j \in Execs : j <= i

\* A confirmed remote delete has failed with an exec error and no stderr.
C2_Witness ==
    /\ lastShell.op.kind = "remote"
    /\ lastShell.error # None
    /\ lastShell.stderr = ""

(* C3: when the local delete fails after a successful remote delete, the   *)
(* step reports the command as run ("OK: ..."), adds exactly 1 to          *)
(* delete_count and moves the loop on to the next entry; no command        *)
(* failure reaches the loop's caller.                                      *)
C3_LocalFailureStillCounts ==
    [][ \A p \in pending \ pending' :
          (p.kind = "local" /\ lastShell'.op = p /\ Failure(lastShell')) =>
            /\ runStats'.delete_count = runStats.delete_count + 1
            /\ completed' > p.idx
            /\ out'[Len(out) + 1] = [ev |-> "log", text |-> "OK: " \o p.text]
            /\ (mainErr' # None =>
                  IndexOf(mainErr'[1], "FAILURE running shell command") = -1)
      ]_vars

\* A local delete has failed and the branch has been counted as deleted.
C3_Witness ==
    /\ lastShell.op.kind = "local"
    /\ Failure(lastShell)
    /\ runStats.delete_count >= 1

(* C4: over lines that are all empty or of the documented shape, when      *)
(* every answer of the operator is "no": no delete command is ever handed  *)
(* to exec and delete_count stays 0; and once the loop is over it has      *)
(* ended once, with no error or exit signal, having consumed every line,   *)
(* with branch_count the number of non-empty lines.                        *)
C4_AllNoCompletes ==
    ( /\ allNo
      /\ pc \in { "cycle", "done" }
      /\ Len(git_logs) > 0
      /\ \A i \in DOMAIN git_logs :
           git_logs[i] = "" \/ DocumentedShape(git_logs[i]) ) =>
        /\ DeleteExecs = {}
        /\ ConfirmPrompts = {}
        /\ runStats.delete_count = 0
        /\ pc = "cycle" =>
             /\ mainCalls = 0
             /\ \E p \in pending : p.kind = "review" /\ pending = { p }
        /\ pc = "done" =>
             /\ mainCalls = 1
             /\ mainErr = None
             /\ completed = Len(git_logs)
             /\ pending = {}
             /\ runStats.branch_count = NonBlank(Len(git_logs))
             /\ Cardinality(ReviewPrompts) = NonBlank(Len(git_logs))

\* The loop is over after "no" to two records, with a blank line between.
C4_Witness ==
    /\ allNo
    /\ pc = "done"
    /\ mainCalls = 1
    /\ runStats.branch_count = 2
    /\ Len(git_logs) >= 3
    /\ git_logs[2] = ""
    /\ lastAnswer.answer = "no"

(* C5: when the operator answers "exit" or "x" at a review prompt and no   *)
(* delete command has run before, the loop is over with the signal         *)
(* "User Exit", delete_count is 0, branch_count is the number k of         *)
(* non-empty lines up to that record, k review prompts have been shown in  *)
(* all and nothing is outstanding: the later records get no prompt and no  *)
(* command.                                                                *)
C5_ExitHaltsLoop ==
    ( /\ lastAnswer.op.kind = "review"
      /\ lastAnswer.answer \in { "exit", "x" }
      /\ RemoteDeleteExecs = {} ) =>
        /\ pc = "done"
        /\ mainCalls = 1
        /\ mainErr = Some("User Exit")
        /\ pending = {}
        /\ completed = lastAnswer.op.idx
        /\ runStats.delete_count = 0
        /\ runStats.branch_count = NonBlank(lastAnswer.op.idx + 1)
        /\ Cardinality(ReviewPrompts) = runStats.branch_count
        /\ DeleteExecs = {}

\* "x" at the second non-empty record, with a record of the documented
\* shape still to come.
C5_Witness ==
    /\ lastAnswer.op.kind = "review"
    /\ lastAnswer.answer = "x"
    /\ runStats.branch_count = 2
    /\ Len(git_logs) > lastAnswer.op.idx + 1
    /\ DocumentedShape(git_logs[lastAnswer.op.idx + 2])

-----------------------------------------------------------------------------
\* The number of lines of git_logs the iterator has been called for.
Started ==
    IF pc = "done" /\ mainErr = None THEN Len(git_logs) ELSE completed + 1

\* The lines among the first n that are of the documented shape.
Shaped(n) == { i \in 1..n : DocumentedShape(git_logs[i]) }

(* C6: an empty raw line gets no operator prompt: no outstanding question  *)
(* belongs to an empty line, and no more review prompts have been shown    *)
(* than there are non-empty lines.  (src/git_cleaner.js and                *)
(* src/unnamed/part_000 call callback() for an empty line without          *)
(* returning, and go on to parse it and to ask about it.)                  *)
C6_NoPromptForBlankLine ==
    /\ \A p \in pending :
         p.kind \in { "review", "confirm" } => git_logs[p.idx + 1] # ""
    /\ Cardinality(ReviewPrompts) <= NonBlank(Len(git_logs))

(* C6, latest revision: while the loop runs and after it, branch_count is  *)
(* the number of non-empty lines the iterator has been called for, the     *)
(* review prompts shown are as many as those of them that parse, and no    *)
(* outstanding operation belongs to an empty line.                         *)
C6_BlankLinesIgnored ==
    (pc \in { "cycle", "done" } /\ Len(git_logs) > 0) =>
        /\ runStats.branch_count = NonBlank(Started)
        /\ Cardinality(ReviewPrompts) = Cardinality(Shaped(Started))
        /\ \A p \in pending : git_logs[p.idx + 1] # ""

\* The loop has gone past an empty line to a record behind it.
C6_Witness ==
    /\ pc = "cycle"
    /\ completed >= 1
    /\ \E i \in 1..completed : git_logs[i] = ""
    /\ runStats.branch_count < completed + 1

(* C7: a non-empty raw line that does not parse gets no operator prompt:   *)
(* every outstanding question belongs to a line that is empty or of the    *)
(* documented shape.  (src/git_cleaner.js does not look at parse_branch's  *)
(* err and asks "Delete branch undefined/undefined?" for a line without    *)
(* the marker.)                                                            *)
C7_NoPromptForMalformedLine ==
    \A p \in pending :
      (p.kind \in { "review", "confirm" } /\ git_logs[p.idx + 1] # "") =>
        DocumentedShape(git_logs[p.idx + 1])

(* C7, latest revision: once the iterator has been called for a non-empty  *)
(* line that does not parse, the loop is over with the parse error of that *)
(* line as its err, nothing is outstanding, branch_count counts the line,  *)
(* only the lines before it have had a review prompt, and the statistics   *)
(* and the report are the last things written: the step wrote no prompt    *)
(* and ran no command.                                                     *)
C7_ParseErrorHalts ==
    \A i \in DOMAIN git_logs :
      ( /\ git_logs[i] # ""
        /\ ~DocumentedShape(git_logs[i])
        /\ pc \in { "cycle", "done" }
        /\ completed >= i - 1 ) =>
          /\ completed = i - 1
          /\ pc = "done"
          /\ mainCalls = 1
          /\ mainErr # None
          /\ StartsWith(mainErr[1], "Log entry missing branch marker ")
               \/ StartsWith(mainErr[1],
                             "Unable to parse branch information from branch ")
          /\ SubSeq(mainErr[1], Len(mainErr[1]) - Len(git_logs[i]) + 1,
                    Len(mainErr[1])) = git_logs[i]
          /\ pending = {}
          /\ runStats.branch_count = NonBlank(i)
          /\ Cardinality(ReviewPrompts) = Cardinality(Shaped(i - 1))
          /\ Len(out) >= 7
          /\ out[Len(out)].text
               = "Git clean processing failure - " \o Inspect(mainErr[1])
          /\ out[Len(out) - 6].ev # "prompt"
          /\ out[Len(out) - 6].ev = "exec" => Len(out) = 7

\* The loop has ended on a line without the marker, after a record that
\* was skipped.
C7_Witness ==
    /\ pc = "done"
    /\ mainErr # None
    /\ StartsWith(mainErr[1], "Log entry missing branch marker ")
    /\ runStats.branch_count = 2
    /\ Len(git_logs) > completed + 1

\* Where the statistics and the failure report stand in out.
TotalLines ==
    { i \in DOMAIN out :
        /\ out[i].ev = "ulog"
        /\ StartsWith(out[i].text, "Total number branches processed: ") }
DeletedLines ==
    { i \in DOMAIN out :
        /\ out[i].ev = "ulog"
        /\ StartsWith(out[i].text, "Number of branches deleted: ") }
FailureLines ==
    { i \in DOMAIN out :
        /\ out[i].ev = "ulog"
        /\ StartsWith(out[i].text, "Git clean processing failure - ") }

(* C8: while the review loop runs, an operation is outstanding and no      *)
(* statistics have been printed; once it is over, however it ended,        *)
(* branch_count and delete_count have each been printed exactly once, with *)
(* their final values, and the error or exit signal is reported exactly    *)
(* when there is one, once, after both.                                    *)
C8_StatsOnceBeforeError ==
    /\ pc = "cycle" =>
         /\ pending # {}
         /\ TotalLines = {} /\ DeletedLines = {} /\ FailureLines = {}
    /\ (pc = "done" /\ Len(git_logs) > 0) =>
         /\ mainCalls = 1
         /\ \E t \in TotalLines, d \in DeletedLines :
              /\ TotalLines = { t } /\ DeletedLines = { d }
              /\ t < d
              /\ out[t].text = "Total number branches processed: "
                                   \o ToString(runStats.branch_count)
              /\ out[d].text = "Number of branches deleted: "
                                   \o ToString(runStats.delete_count)
              /\ \A f \in FailureLines : d < f
         /\ Cardinality(FailureLines) = IF mainErr = None THEN 0 ELSE 1
         /\ \A f \in FailureLines :
              out[f].text = "Git clean processing failure - "
                                \o Inspect(mainErr[1])

\* The loop has ended on a failed remote delete, after an earlier delete.
C8_Witness ==
    /\ pc = "done"
    /\ mainErr # None
    /\ StartsWith(mainErr[1], "FAILURE running shell command:")
    /\ runStats.delete_count = 1
    /\ FailureLines # {}

\* The remote deletes, and the local deletes, runShellCommand has reported
\* as run.
OkRemote ==
    { i \in DOMAIN out :
        /\ out[i].ev = "log"
        /\ StartsWith(out[i].text, "OK: ")
        /\ IsRemoteDelete(out[i].text) }
OkLocal ==
    { i \in DOMAIN out :
        /\ out[i].ev = "log"
        /\ StartsWith(out[i].text, "OK: ")
        /\ IsLocalDelete(out[i].text) }

(* C9 as stated: in every reachable state delete_count is the number of    *)
(* remote deletes that have completed without error, and it is at most     *)
(* branch_count.  It fails while the local delete that follows a           *)
(* successful remote delete is in flight: delete_count is added to only    *)
(* when the local delete returns.                                          *)
C9_DeleteCountIsRemoteSuccesses ==
    /\ runStats.delete_count = Cardinality(OkRemote)
    /\ runStats.delete_count <= runStats.branch_count

(* C9 as amended: delete_count is the number of remote deletes that have   *)
(* completed without error, less one while the local delete that follows   *)
(* such a remote delete is in flight; so it is that number whenever no     *)
(* local delete is outstanding, and it is the number of local deletes that *)
(* have returned.  It never exceeds branch_count nor the number of records *)
(* completed (at most one increment per record).                           *)
C9_DeleteCountTrailsLocalDelete ==
    /\ runStats.delete_count
         = Cardinality(OkRemote)
             - Cardinality({ p \in pending : p.kind = "local" })
    /\ runStats.delete_count = Cardinality(OkLocal)
    /\ runStats.delete_count <= runStats.branch_count
    /\ runStats.delete_count <= completed

\* A second branch's local delete is in flight after a first was deleted.
C9_Witness ==
    /\ runStats.delete_count = 1
    /\ Cardinality(OkRemote) = 2
    /\ \E p \in pending : p.kind = "local"

(* C10: at most one operation (a prompt or an exec) is outstanding at any  *)
(* time.  (In src/git_cleaner.js an empty line starts the next record and  *)
(* then asks about the empty line itself: two prompts are outstanding.)    *)
C10_NoTwoOutstanding == Cardinality(pending) <= 1

(* C10, latest revision: at most one operation is outstanding, and while   *)
(* a prompt or a delete command of a record is outstanding the loop is     *)
(* still at that record.                                                   *)
C10_StrictlySequential ==
    /\ Cardinality(pending) <= 1
    /\ \A p \in pending :
         p.kind # "listing" => (pc = "cycle" /\ p.idx = completed)

\* The second record's remote delete is outstanding, alone.
C10_Witness ==
    /\ completed >= 1
    /\ \E p \in pending : p.kind = "remote" /\ pending = { p }
-----------------------------------------------------------------------------
\* The step in which the local delete of a confirmed branch returns: the
\* remote delete has succeeded before it.
LocalDeleteReturns(p) ==
    /\ p \in pending \ pending'
    /\ p.kind = "local"
    /\ lastShell'.op = p

(* C11 as stated: when the local delete that follows a successful remote   *)
(* delete returns, whatever its outcome, the cmd confirmDelete hands its   *)
(* callback is the remote-delete command, bare or as handed to exec.  It   *)
(* fails: confirmDelete passes its callback on to the runShellCommand of   *)
(* the local delete, which hands back the command it ran itself.           *)
C11_HandsBackRemoteDelete ==
    [][ \A p \in pending :
          LocalDeleteReturns(p) =>
            /\ handed'.idx = p.idx
            /\ handed'.err = None
            /\ handed'.cmd \in
                 { Some("git push --porcelain " \o p.branch.git_remote
                            \o " :" \o p.branch.git_branch),
                   Some("cd " \o target_path \o ";git push --porcelain "
                            \o p.branch.git_remote
                            \o " :" \o p.branch.git_branch) }
      ]_vars

(* C11 as amended: when the local delete that follows a successful remote  *)
(* delete returns, whatever its outcome, confirmDelete hands its callback  *)
(* no error and the local-delete command line as it was handed to exec,    *)
(* "cd <target_path>;git branch -D <branch>"; and a cmd is handed back in  *)
(* no other step.                                                          *)
C11_HandsBackLocalDelete ==
    [][ /\ \A p \in pending :
             LocalDeleteReturns(p) =>
               /\ handed'.idx = p.idx
               /\ handed'.err = None
               /\ handed'.cmd = Some("cd " \o target_path
                                         \o ";git branch -D "
                                         \o p.branch.git_branch)
               /\ \E i \in OkRemote :
                    out[i].text = "OK: cd " \o target_path
                                      \o ";git push --porcelain "
                                      \o p.branch.git_remote
                                      \o " :" \o p.branch.git_branch
        /\ (handed' # handed /\ handed'.cmd # None) =>
             \E p \in pending : LocalDeleteReturns(p)
      ]_vars

\* A cmd has been handed back for a record whose local delete failed.
C11_Witness ==
    /\ handed.cmd # None
    /\ lastShell.op.kind = "local"
    /\ lastShell.op.idx = handed.idx
    /\ lastShell.stderr # ""

-----------------------------------------------------------------------------
\* The command line runShellCommand was called to run.
ArgCmd == "cd " \o arg.target_path \o ";" \o arg.command

(* C12: runShellCommand, called with any command, either value of          *)
(* ignore_errors and any outcome of the exec, hands its callback the error *)
(* "FAILURE running shell command:<cmd>" and no command exactly when       *)
(* ignore_errors is false and the exec gave stderr or an error; in every   *)
(* other case, so in every case with ignore_errors true, it hands back no  *)
(* error and the command line it ran, and logs it as OK.  The command line *)
(* is handed to exec once, whatever comes of it.                           *)
C12_RunShellCommandVerdict ==
    ret.fn = "runShellCommand" =>
      LET failed == /\ ~arg.ignore_errors
                    /\ (lastShell.stderr # "" \/ lastShell.error # None)
      IN  /\ Cardinality(Execs) = 1
          /\ \A i \in Execs : out[i].text = ArgCmd
          /\ failed =>
               /\ ret.err = Some("FAILURE running shell command:" \o ArgCmd)
               /\ ret.cmd = None
               /\ \A i \in DOMAIN out : ~StartsWith(out[i].text, "OK: ")
          /\ ~failed =>
               /\ ret.err = None
               /\ ret.cmd = Some(ArgCmd)
               /\ out[Len(out)] = [ev |-> "log", text |-> "OK: " \o ArgCmd]

\* runShellCommand has handed back the command although the exec gave both
\* an error and stderr: it was called with ignore_errors true.
C12_Witness ==
    /\ ret.fn = "runShellCommand"
    /\ arg.ignore_errors
    /\ lastShell.stderr # ""
    /\ lastShell.error # None
    /\ ret.cmd # None

-----------------------------------------------------------------------------
\* What the session was started on rules the review loop out: the argument
\* count is wrong, the target is missing or is no directory, or the listing
\* has returned with an error, with stderr or without stdout.
WrongArguments == pc # "start" /\ Len(given.argv) # 3
BadTarget == pc # "start" /\ given.fs # "dir"
ListingFailed ==
    /\ given.listing # None
    /\ \/ given.listing[1].error # None
       \/ given.listing[1].stderr # ""
       \/ given.listing[1].nostdout

\* Every prompt put up so far.
Prompts == { i \in DOMAIN out : out[i].ev = "prompt" }

(* C15: when the argument count is wrong, the target does not exist or is  *)
(* no directory, or the listing has returned an exec error, stderr or no   *)
(* stdout, the session is over with nothing outstanding, so nothing can    *)
(* follow; branchCycle has not been called, no prompt has been shown, no   *)
(* delete command has been handed to exec and no statistics or failure     *)
(* line has been printed.  With wrong arguments or a bad target nothing at *)
(* all has been handed to exec, the listing neither.                       *)
C15_NotStartedNoEffects ==
    /\ (WrongArguments \/ BadTarget \/ ListingFailed) =>
         /\ pc = "done"
         /\ pending = {}
         /\ git_logs = << >>
         /\ mainCalls = 0
         /\ Prompts = {}
         /\ DeleteExecs = {}
         /\ TotalLines = {} /\ DeletedLines = {} /\ FailureLines = {}
         /\ runStats = [branch_count |-> 0, delete_count |-> 0]
    /\ (WrongArguments \/ BadTarget) => Execs = {}

\* The listing has returned without error and without stderr, but with no
\* stdout either.
C15_Witness ==
    /\ given.listing # None
    /\ given.listing[1].error = None
    /\ given.listing[1].stderr = ""
    /\ given.listing[1].nostdout
    /\ pc = "done"

-----------------------------------------------------------------------------
\* The step in which the exec of a confirmed remote delete returns failed.
RemoteDeleteFails(p) ==
    /\ p \in pending \ pending'
    /\ p.kind = "remote"
    /\ lastShell'.op = p
    /\ Failure(lastShell')

\* The step in which the operator answers a confirmation prompt with
\* anything but "yes" or "y".
ConfirmDeclined(p) ==
    /\ p \in pending \ pending'
    /\ p.kind = "confirm"
    /\ lastAnswer'.op = p
    /\ lastAnswer'.answer \notin { "yes", "y" }

\* err is one of parseBranch's errors.
IsParseError(err) ==
    /\ err # None
    /\ \/ StartsWith(err[1], "Log entry missing branch marker ")
       \/ StartsWith(err[1],
                     "Unable to parse branch information from branch ")

(* C16: in the step in which a confirmed remote delete returns failed,     *)
(* confirmDelete hands its callback the failure and no cmd, and the loop   *)
(* is over with that failure as its err: main_callback is called for the   *)
(* first time, the statistics are as they were (delete_count is not added  *)
(* to), the loop has not moved on from the record, nothing is outstanding  *)
(* and the step shows no prompt and runs no command.  And once             *)
(* confirmDelete has handed back an error no step follows at all.          *)
C16_ConfirmErrorHalts ==
    [][ /\ \A p \in pending :
             RemoteDeleteFails(p) =>
               /\ handed' = [idx |-> p.idx,
                             err |-> Some("FAILURE running shell command:"
                                              \o p.text),
                             cmd |-> None]
               /\ mainErr' = handed'.err
               /\ mainCalls = 0 /\ mainCalls' = 1
               /\ pc' = "done"
               /\ pending' = {}
               /\ runStats' = runStats
               /\ completed' = p.idx
               /\ callbacks' = Append(callbacks, p.idx)
               /\ \A i \in NewOut : out'[i].ev \notin { "prompt", "exec" }
        /\ handed.err # None => vars' = vars
      ]_vars

\* The remote delete of the second of three records has failed, after the
\* first was deleted.
C16_Witness ==
    /\ handed.err # None
    /\ handed.idx = 1
    /\ runStats.delete_count = 1
    /\ Len(git_logs) >= 3
    /\ DocumentedShape(git_logs[3])

(* C17: in the step in which the operator answers the confirmation prompt  *)
(* with anything but "yes" or "y" ("no", "exit", "x", "Yes", the empty     *)
(* line), the step logs "Skipping <branch>" and hands no command to exec,  *)
(* delete_count stays as it is, confirmDelete hands its callback no error  *)
(* and no cmd, and the loop goes on past the record: to the prompt of a    *)
(* later record, or to its end with no err or with the parse error of a    *)
(* later line, never with "User Exit".  "User Exit" becomes the loop's err *)
(* only in a step that answers a review prompt with "exit" or "x".         *)
C17_ConfirmDeclineProceeds ==
    [][ /\ \A p \in pending :
             ConfirmDeclined(p) =>
               /\ out'[Len(out) + 1]
                    = [ev |-> "log",
                       text |-> "Skipping " \o p.branch.git_branch]
               /\ \A i \in NewOut : out'[i].ev # "exec"
               /\ runStats'.delete_count = runStats.delete_count
               /\ handed' = [idx |-> p.idx, err |-> None, cmd |-> None]
               /\ callbacks'[Len(callbacks) + 1] = p.idx
               /\ completed' > p.idx
               /\ pc' \in { "cycle", "done" }
               /\ pc' = "cycle" =>
                    \E q \in pending' :
                      /\ pending' = { q }
                      /\ q.kind = "review"
                      /\ q.idx = completed'
               /\ pc' = "done" =>
                    /\ pending' = {}
                    /\ \/ mainErr' = None /\ completed' = Len(git_logs)
                       \/ IsParseError(mainErr')
        /\ (mainErr' # mainErr /\ mainErr' = Some("User Exit")) =>
             \E q \in pending \ pending' :
               /\ q.kind = "review"
               /\ lastAnswer'.op = q
               /\ lastAnswer'.answer \in { "exit", "x" }
      ]_vars

\* "exit" at the confirmation prompt of a record, and the loop stands at
\* the review prompt of a later one.
C17_Witness ==
    /\ lastAnswer.op.kind = "confirm"
    /\ lastAnswer.answer = "exit"
    /\ pc = "cycle"
    /\ completed > lastAnswer.op.idx
    /\ \E q \in pending : q.kind = "review"

-----------------------------------------------------------------------------
\* The parts make a line of the documented shape: the marker, then
\* <remote>/<branch> with both present (no <remote> of the samples holds a
\* "/" or white space).
WellFormedParts(a) ==
    /\ a.marker = BRANCH_MARKER
    /\ a.sep = "/"
    /\ a.remote # ""
    /\ a.branch # ""

\* A parser has been applied to the line of the parts in arg.
Parsed == ret.fn \in { "parseBranch", "parse_branch" }

\* What stands behind the first marker of a line, trimmed.
Payload(line) ==
    Trim(SubSeq(line, IndexOf(line, BRANCH_MARKER) + Len(BRANCH_MARKER) + 1,
                Len(line)))

(* C13: applied to a line put together from commit details, the marker,    *)
(* white space, <remote>, "/" and <branch> (which may hold further "/"),   *)
(* parseBranch and parse_branch hand back no error and the record whose    *)
(* git_remote and git_branch are the very <remote> and <branch> the line   *)
(* was made of and whose branch_info is the line as it came, untrimmed.    *)
(* And for every line of the documented shape, however it came about: no   *)
(* error, git_remote and git_branch are non-empty, git_remote holds no     *)
(* "/", the two joined by "/" are the trimmed text behind the marker, and  *)
(* branch_info is the line.                                                *)
C13_WellFormedLineParses ==
    Parsed =>
      /\ WellFormedParts(arg) =>
           /\ ret.err = None
           /\ ret.branch = Some([git_remote |-> arg.remote,
                                 git_branch |-> arg.branch,
                                 branch_info |-> RawLine(arg)])
      /\ DocumentedShape(RawLine(arg)) =>
           /\ ret.err = None
           /\ ret.branch # None
           /\ ret.branch[1].git_remote # ""
           /\ ret.branch[1].git_branch # ""
           /\ \A k \in 1..Len(ret.branch[1].git_remote) :
                SubSeq(ret.branch[1].git_remote, k, k) # "/"
           /\ ret.branch[1].git_remote \o "/" \o ret.branch[1].git_branch
                = Payload(RawLine(arg))
           /\ ret.branch[1].branch_info = RawLine(arg)

\* "origin/release/1.0" behind commit details that hold a "/" themselves,
\* with white space after it, has been parsed by parseBranch.
C13_Witness ==
    /\ ret.fn = "parseBranch"
    /\ arg.info = "2 bob a/b "
    /\ arg.marker = BRANCH_MARKER
    /\ arg.remote = "origin"
    /\ arg.sep = "/"
    /\ arg.branch = "release/1.0"
    /\ arg.tail = " "
    /\ ret.branch # None

(* C14 as stated, for both parsers: applied to a line without the marker,  *)
(* the parser hands back the missing-marker error, the error holds the     *)
(* line, and no branch comes with it.  (parse_branch of src/git_cleaner.js *)
(* calls callback(message, BRANCH_MARKER, "on log entry", branch_info):    *)
(* the error is the bare message and the marker arrives as branch.)        *)
C14_MissingMarkerCarriesLine ==
    (Parsed /\ arg.marker # BRANCH_MARKER) =>
      /\ ret.err # None
      /\ StartsWith(ret.err[1], "Log entry missing branch marker")
      /\ Len(ret.err[1]) > Len(RawLine(arg))
      /\ SubSeq(ret.err[1], Len(ret.err[1]) - Len(RawLine(arg)) + 1,
                Len(ret.err[1])) = RawLine(arg)
      /\ ret.branch = None

(* C14, latest revision: applied to a line without the marker, parseBranch *)
(* hands back "Log entry missing branch marker [[branch]] on log entry "   *)
(* followed by the line as it came, and no branch.                         *)
C14_MissingMarkerFails ==
    (ret.fn = "parseBranch" /\ arg.marker # BRANCH_MARKER) =>
      /\ ret.err = Some("Log entry missing branch marker [[branch]]"
                            \o " on log entry " \o RawLine(arg))
      /\ ret.branch = None

\* parse_branch has been applied to a line with the marker cut short.
C14_Witness ==
    /\ ret.fn = "parse_branch"
    /\ arg.marker = "[[branch]"
    /\ arg.remote = "origin"
    /\ ret.err # None

-----------------------------------------------------------------------------
(* C18 as stated: once the loop is over, no failure line has been logged   *)
(* when its err is "User Exit", and one has been logged when its err is a  *)
(* parse error or the failure of a command.  (launchCleaner logs           *)
(* "Git clean processing failure - " with whatever err it is handed, so    *)
(* with "User Exit" too.)                                                  *)
C18_UserExitNotLoggedAsFailure ==
    (pc = "done" /\ mainCalls >= 1) =>
        /\ mainErr = Some("User Exit") => FailureLines = {}
        /\ (mainErr # None /\ mainErr # Some("User Exit")) =>
             FailureLines # {}

(* C18, the part that holds: once the loop is over with a parse error or   *)
(* with the failure of a command as its err, exactly one failure line has  *)
(* been logged and it shows that err; with no err none has been logged.    *)
C18_FailuresLogged ==
    (pc = "done" /\ mainCalls >= 1) =>
        /\ (IsParseError(mainErr)
              \/ (mainErr # None
                    /\ StartsWith(mainErr[1],
                                  "FAILURE running shell command:"))) =>
             /\ Cardinality(FailureLines) = 1
             /\ \A f \in FailureLines :
                  out[f].text = "Git clean processing failure - "
                                    \o Inspect(mainErr[1])
        /\ mainErr = None => FailureLines = {}

\* The loop has ended on "x" and the failure line names 'User Exit'.
C18_Witness ==
    /\ pc = "done"
    /\ mainErr = Some("User Exit")
    /\ lastAnswer.answer = "x"
    /\ \E f \in FailureLines :
         out[f].text = "Git clean processing failure - 'User Exit'"

-----------------------------------------------------------------------------
(* The session under the assumption that the operator answers every prompt *)
(* and that every exec returns: each callback that has an outstanding      *)
(* operation to run on is eventually run.                                  *)
\* An operation of one of these kinds is outstanding: its callback can run.
Outstanding(kinds) == \E p \in pending : p.kind \in kinds

\* The step runs the callback of an operation of one of these kinds (the
\* identity of an operation is never used again, so the operation leaves
\* pending in that step and in no other).
Returns(kinds) == \E p \in pending \ pending' : p.kind \in kinds

\* WF_vars(A) for the action A that runs the callbacks of these kinds,
\* written out as []<>~ENABLED <<A>>_vars \/ []<><<A>>_vars with A's guard
\* for ENABLED <<A>>_vars.
WeakFairness(kinds) ==
    []<>(~Outstanding(kinds)) \/ []<><<Returns(kinds)>>_vars

SpecLive ==
    /\ Spec
    /\ WeakFairness({ "review" })           \* WF_vars(AnswerReview)
    /\ WeakFairness({ "confirm" })          \* WF_vars(AnswerConfirm)
    /\ WeakFairness({ "remote", "local" })  \* WF_vars(ShellDone)

\* The loop is over: main_callback has been called once, with the err in
\* mainErr, and the statistics it was handed stand printed as they are.
LoopOver ==
    /\ pc = "done"
    /\ mainCalls = 1
    /\ pending = {}
    /\ \E t \in TotalLines, d \in DeletedLines :
         /\ out[t].text = "Total number branches processed: "
                              \o ToString(runStats.branch_count)
         /\ out[d].text = "Number of branches deleted: "
                              \o ToString(runStats.delete_count)
    /\ \/ mainErr = None /\ completed = Len(git_logs)
       \/ mainErr = Some("User Exit")
       \/ /\ mainErr # None
          /\ \/ StartsWith(mainErr[1], "Log entry missing branch marker ")
             \/ StartsWith(mainErr[1],
                           "Unable to parse branch information from branch ")
             \/ StartsWith(mainErr[1], "FAILURE running shell command:")

(* C19: when every prompt is eventually answered and every exec eventually *)
(* returns, a review loop that has been started is eventually over: all    *)
(* lines consumed, or "User Exit", or the first parse error or failed      *)
(* remote delete; main_callback has then been called once with that err    *)
(* and with the statistics as they stand.                                  *)
C19_LoopTerminates == (pc = "cycle") ~> LoopOver

\* A loop that stood at a prompt has ended normally after a delete.
C19_Witness ==
    /\ LoopOver
    /\ mainErr = None
    /\ runStats.delete_count >= 1
    /\ lastAnswer.op.kind \in { "review", "confirm" }

-----------------------------------------------------------------------------
\* No entry occurs twice in callbacks, and the entries stand in the order
\* of the input.
OnceAndInOrder ==
    \A i, j \in DOMAIN callbacks : i < j => callbacks[i] < callbacks[j]

(* C20 as stated, for every revision: the eachSeries callback of an entry  *)
(* is invoked at most once and the callbacks come in the order of the      *)
(* input; the final callback is called at most once; and once it has been  *)
(* called without err every entry's callback has been invoked.             *)
(* (src/git_cleaner.js and src/unnamed/part_000 invoke the callback of an  *)
(* empty entry at once and again when the prompt they put up for it is     *)
(* answered, and with it the final callback a second time.)                *)
C20_EachCallbackOnce ==
    /\ OnceAndInOrder
    /\ mainCalls <= 1
    /\ (pc = "done" /\ mainCalls = 1 /\ mainErr = None) =>
         Len(callbacks) = Len(git_logs)

(* C20, latest revision: whatever the lines, the answers and the outcomes  *)
(* of the commands, the callbacks invoked so far are those of the entries  *)
(* 0, 1, 2, ... in this order, each once: of all entries before the one    *)
(* the loop stands at while it runs, of every entry once it has ended      *)
(* without err, and up to the entry that gave the err otherwise; what is   *)
(* outstanding belongs to the one entry whose callback is due next; and    *)
(* the final callback has been called once when the loop is over and not   *)
(* before.                                                                 *)
C20_CallbacksOnceInOrder ==
    /\ \A i \in DOMAIN callbacks : callbacks[i] = i - 1
    /\ pc = "cycle" =>
         /\ Len(callbacks) = completed
         /\ completed < Len(git_logs)
         /\ mainCalls = 0
         /\ \A p \in pending : p.idx = Len(callbacks)
    /\ (pc = "done" /\ Len(git_logs) > 0) =>
         /\ mainCalls = 1
         /\ mainErr = None =>
              Len(callbacks) = Len(git_logs) /\ completed = Len(git_logs)
         /\ mainErr # None =>
              Len(callbacks) = completed + 1 /\ completed < Len(git_logs)

\* The loop has ended without err over three entries, the second of them
\* empty and the third deleted.
C20_Witness ==
    /\ pc = "done"
    /\ mainErr = None
    /\ callbacks = << 0, 1, 2 >>
    /\ git_logs[2] = ""
    /\ handed.idx = 2
    /\ handed.cmd # None
=============================================================================
